---- MODULE Spec2Model ----
(***************************************************************************)
(* The prediction request lifecycle of the phishing-detection front end:   *)
(* the Search form (components/Search.jsx), the Home orchestrator that     *)
(* owns searchTerm / loading / error / predictionDetail, and the API       *)
(* wrapper getPrediction (api.js).                                         *)
(*                                                                         *)
(* The specifications share the form and the orchestrator:                 *)
(*   Spec      Home composed with the getPrediction of api.js; the         *)
(*             environment settles the axios.post promise.                 *)
(*   SpecUnit  Home with getPrediction replaced by a stub whose promise    *)
(*             the environment fulfils or rejects directly.                *)
(*   LiveSpec  Spec, with every issued call eventually settling.           *)
(* All code after an await runs in one microtask chain of the single UI    *)
(* event loop, so each continuation is one atomic action.                  *)
(***************************************************************************)
EXTENDS Integers, Sequences, FiniteSets, TLC

VARIABLES searchTerm, loading, error, predictionDetail, mounted,
          requests, submits, lastEvent

vars == <<searchTerm, loading, error, predictionDetail, mounted,
          requests, submits, lastEvent>>

(* ----------------------------- bounds ---------------------------------- *)

\* the most getPrediction calls explored in one behaviour
MaxCalls == 2

\* the strings the user can have in the text field
Urls == {"u1", "u2"}
Terms == {""} \cup Urls

\* err.message of a failed axios.post
Messages == {"Network Error", "Request failed with status code 500"}

(* --------------------------- JavaScript values ------------------------- *)

Undefined == [t |-> "undefined"]
Null == [t |-> "null"]
Str(s) == [t |-> "string", s |-> s]
Arr(xs) == [t |-> "array", items |-> xs]
Obj(p, i, u) == [t |-> "object", prediction |-> p, info |-> i, url |-> u]

\* value.name as JavaScript evaluates it on a non-nullish value: own
\* properties of an object, undefined on a string
Prop(value, name) ==
    IF value.t = "object"
    THEN CASE name = "prediction" -> value.prediction
           [] name = "info" -> value.info
           [] name = "url" -> value.url
    ELSE Undefined

\* const {prediction,info,url} = value throws a TypeError on null/undefined
DestructureThrows(value) == value.t \in {"null", "undefined"}

Destructure(value) ==
    [prediction |-> Prop(value, "prediction"),
     info |-> Prop(value, "info"),
     url |-> Prop(value, "url")]

(* ------------------------------ backend -------------------------------- *)

\* bodies of a 2xx answer to POST /predict/ {url}: the documented shape,
\* or a JSON null
GoodBodies(url) ==
    { Obj(Str("phishing"), Arr(<<"reason1", "reason2">>), Str(url)),
      Obj(Str("safe"), Arr(<<>>), Str(url)) }

Bodies(url) == GoodBodies(url) \cup {Null}

(* ------------------------------- api.js -------------------------------- *)

\* getPrediction: the settlement of its promise, given how axios.post
\* settled.  The catch block returns err.message (comma operator), so the
\* promise is fulfilled in both branches.
getPrediction(http) ==
    IF http.ok
    THEN [status |-> "fulfilled", value |-> http.data]
    ELSE [status |-> "fulfilled", value |-> Str(http.message)]

(* ---------------------------- Home (state) ----------------------------- *)

InitialDetail == [prediction |-> Null, info |-> Arr(<<>>), url |-> Null]

HomeState == [loading |-> loading, error |-> error,
              predictionDetail |-> predictionDetail]

\* the panel Home renders: spinner over error banner over result panel;
\* the result panel calls predictionDetail.info.map
Render(st) ==
    IF st.loading THEN "spinner"
    ELSE IF st.error THEN "error"
    ELSE IF st.predictionDetail.info.t = "array" THEN "result"
    ELSE "crash"

\* {value} as a JSX child: a string is shown, null and undefined show
\* nothing
Text(value) == IF value.t = "string" THEN value.s ELSE ""

\* info.map(...): one <li> per inference, in order, keyed by the inference
\* and showing a bullet followed by the inference
ListItems(info) ==
    [k \in 1..Len(info.items) |->
        [key |-> info.items[k], text |-> <<"bullet", info.items[k]>>]]

\* what Home shows: the panel and, for the result panel, its contents
View(st) ==
    IF Render(st) = "result"
    THEN [panel |-> "result",
          prediction |-> Text(st.predictionDetail.prediction),
          items |-> ListItems(st.predictionDetail.info),
          url |-> Text(st.predictionDetail.url)]
    ELSE [panel |-> Render(st)]

(* ------------------------- Home.handlePrediction ----------------------- *)

\* handlePrediction without the test of its argument
IssuesCallAlways(searchUrl) == TRUE

\* the synchronous part, up to the await: does it call getPrediction?
IssuesCall(searchUrl) == searchUrl # ""

\* handlePrediction without the setLoading(true)
handlePredictionBeginNoLoading(st, searchUrl) == st

\* handlePrediction with the setLoading(true) ahead of the test of its
\* argument
handlePredictionBeginEager(st, searchUrl) == [st EXCEPT !.loading = TRUE]

\* state after the synchronous part
handlePredictionBegin(st, searchUrl) ==
    IF IssuesCall(searchUrl)
    THEN [st EXCEPT !.loading = TRUE]
    ELSE st

\* handlePrediction with setLoading(false) at the end of the try body
\* instead of in a finally block
handlePredictionSettleNoFinally(st, settled) ==
    LET thrown == settled.status = "rejected"
                  \/ DestructureThrows(settled.value)
    IN [loading |-> IF thrown THEN st.loading ELSE FALSE,
        error |-> IF thrown THEN TRUE ELSE st.error,
        predictionDetail |-> IF thrown THEN st.predictionDetail
                             ELSE Destructure(settled.value)]

\* handlePrediction appending the new inferences to the stored ones
handlePredictionSettleMerging(st, settled) ==
    LET thrown == settled.status = "rejected"
                  \/ DestructureThrows(settled.value)
        d == Destructure(settled.value)
        old == st.predictionDetail.info
    IN [loading |-> FALSE,
        error |-> IF thrown THEN TRUE ELSE st.error,
        predictionDetail |->
            IF thrown THEN st.predictionDetail
            ELSE IF d.info.t = "array" /\ old.t = "array"
                 THEN [d EXCEPT !.info = Arr(old.items \o d.info.items)]
                 ELSE d]

\* handlePrediction with a catch block that also resets the stored result
handlePredictionSettleClearing(st, settled) ==
    LET thrown == settled.status = "rejected"
                  \/ DestructureThrows(settled.value)
    IN [loading |-> FALSE,
        error |-> IF thrown THEN TRUE ELSE st.error,
        predictionDetail |-> IF thrown THEN InitialDetail
                             ELSE Destructure(settled.value)]

\* handlePrediction with error set from the outcome of each call
handlePredictionSettleResetting(st, settled) ==
    LET thrown == settled.status = "rejected"
                  \/ DestructureThrows(settled.value)
    IN [loading |-> FALSE,
        error |-> thrown,
        predictionDetail |-> IF thrown THEN st.predictionDetail
                             ELSE Destructure(settled.value)]

\* state after the continuation: try body, catch, finally
handlePredictionSettle(st, settled) ==
    LET thrown == settled.status = "rejected"
                  \/ DestructureThrows(settled.value)
    IN [loading |-> FALSE,
        error |-> IF thrown THEN TRUE ELSE st.error,
        predictionDetail |-> IF thrown THEN st.predictionDetail
                             ELSE Destructure(settled.value)]

(* --------------------------- Search.handleSubmit ----------------------- *)

\* handleSubmit calling the callback twice
handleSubmitEffectsTwice(term) ==
    << [op |-> "preventDefault", arg |-> ""],
       [op |-> "handlePrediction", arg |-> term],
       [op |-> "handlePrediction", arg |-> term],
       [op |-> "setSearchTerm", arg |-> ""] >>

\* handleSubmit skipping the callback for an empty field
handleSubmitEffectsValidating(term) ==
    IF term = ""
    THEN << [op |-> "preventDefault", arg |-> ""],
            [op |-> "setSearchTerm", arg |-> ""] >>
    ELSE << [op |-> "preventDefault", arg |-> ""],
            [op |-> "handlePrediction", arg |-> term],
            [op |-> "setSearchTerm", arg |-> ""] >>

\* the calls handleSubmit makes, in program order, for the searchTerm it
\* closed over
handleSubmitEffects(term) ==
    << [op |-> "preventDefault", arg |-> ""],
       [op |-> "handlePrediction", arg |-> term],
       [op |-> "setSearchTerm", arg |-> ""] >>

\* one call of a handler: s = [home, term, issued], the Home state, the
\* field and the urls handed to getPrediction so far
ApplyEffect(s, e) ==
    CASE e.op = "handlePrediction" ->
           [s EXCEPT !.home = handlePredictionBegin(s.home, e.arg),
                     !.issued = IF IssuesCall(e.arg)
                                THEN Append(s.issued, e.arg)
                                ELSE s.issued]
      [] e.op = "setSearchTerm" -> [s EXCEPT !.term = e.arg]
      [] OTHER -> s

RECURSIVE RunEffects(_, _)
RunEffects(s, effects) ==
    IF effects = <<>> THEN s
    ELSE RunEffects(ApplyEffect(s, Head(effects)), Tail(effects))

(* ------------------------------ history -------------------------------- *)

NoSnapshot == [loading |-> FALSE, error |-> FALSE,
               predictionDetail |-> InitialDetail]

Pending == {i \in 1..Len(requests) : requests[i].status = "pending"}
Settled == {i \in 1..Len(requests) : requests[i].status # "pending"}

\* the last handler that ran: the field and the Home state it started
\* from, and the calls it made
NoEvent == [kind |-> "init", term |-> "", effects |-> <<>>, id |-> 0,
            pre |-> NoSnapshot, calls |-> 0, inflight |-> {}]

Event(kind, term, effects, id) ==
    [kind |-> kind, term |-> term, effects |-> effects, id |-> id,
     pre |-> HomeState, calls |-> Len(requests), inflight |-> Pending]

\* a getPrediction call: its argument, the settlement of its promise, the
\* Home state before the submission and after the continuation, whether no
\* other call was in flight during its life, and the calls settled before
NewRequest(url, st, alone) ==
    [url |-> url, status |-> "pending", http |-> "none", value |-> Undefined,
     before |-> st, after |-> NoSnapshot,
     alone |-> alone, doneAtSubmit |-> Settled]

(* -------------------------------- Init --------------------------------- *)

Init ==
    /\ searchTerm = ""
    /\ loading = FALSE
    /\ error = FALSE
    /\ predictionDetail = InitialDetail
    /\ mounted = TRUE
    /\ requests = <<>>
    /\ submits = 0
    /\ lastEvent = NoEvent

(* ------------------------------- actions ------------------------------- *)

\* onChange of the input: setSearchTerm(e.target.value)
SetSearchTerm(v) ==
    /\ mounted
    /\ searchTerm' = v
    /\ lastEvent' = Event("type", searchTerm, <<>>, 0)
    /\ UNCHANGED <<loading, error, predictionDetail, mounted, requests,
                   submits>>

\* onSubmit of the form
handleSubmit ==
    LET effects == handleSubmitEffects(searchTerm)
        s == RunEffects([home |-> HomeState, term |-> searchTerm,
                         issued |-> <<>>], effects)
        n == Len(s.issued)
    IN /\ mounted
       /\ searchTerm = "" \/ submits < MaxCalls
       /\ Len(requests) + n <= MaxCalls
       /\ loading' = s.home.loading
       /\ error' = s.home.error
       /\ predictionDetail' = s.home.predictionDetail
       /\ searchTerm' = s.term
       /\ requests' =
            IF n = 0 THEN requests
            ELSE [i \in 1..Len(requests) |->
                    [requests[i] EXCEPT !.alone =
                        requests[i].alone /\ requests[i].status # "pending"]]
                 \o [k \in 1..n |->
                       NewRequest(s.issued[k], HomeState,
                                  Pending = {} /\ n = 1)]
       /\ submits' = IF searchTerm # "" THEN submits + 1 ELSE submits
       /\ lastEvent' = Event("submit", searchTerm, effects, 0)
       /\ UNCHANGED mounted

\* a continuation that stores the result of the most recent call only
ContinueFenced(i, http, settled) ==
    LET new == handlePredictionSettle(HomeState, settled)
        st == IF i = Len(requests) THEN new
              ELSE [new EXCEPT !.predictionDetail = predictionDetail]
    IN /\ mounted
       /\ i \in Pending
       /\ loading' = st.loading
       /\ error' = st.error
       /\ predictionDetail' = st.predictionDetail
       /\ mounted' = (Render(st) # "crash")
       /\ requests' = [requests EXCEPT ![i].status = settled.status,
                                       ![i].http = http,
                                       ![i].value = settled.value,
                                       ![i].after = st]
       /\ lastEvent' = Event("settle", searchTerm, <<>>, i)
       /\ UNCHANGED <<searchTerm, submits>>

\* a continuation that also empties the text field
ContinueClearingField(i, http, settled) ==
    LET st == handlePredictionSettle(HomeState, settled)
    IN /\ mounted
       /\ i \in Pending
       /\ loading' = st.loading
       /\ error' = st.error
       /\ predictionDetail' = st.predictionDetail
       /\ mounted' = (Render(st) # "crash")
       /\ requests' = [requests EXCEPT ![i].status = settled.status,
                                       ![i].http = http,
                                       ![i].value = settled.value,
                                       ![i].after = st]
       /\ lastEvent' = Event("settle", searchTerm, <<>>, i)
       /\ searchTerm' = ""
       /\ UNCHANGED submits

\* the continuation of handlePrediction once the promise of call i settled
Continue(i, http, settled) ==
    LET st == handlePredictionSettle(HomeState, settled)
    IN /\ mounted
       /\ i \in Pending
       /\ loading' = st.loading
       /\ error' = st.error
       /\ predictionDetail' = st.predictionDetail
       /\ mounted' = (Render(st) # "crash")
       /\ requests' = [requests EXCEPT ![i].status = settled.status,
                                       ![i].http = http,
                                       ![i].value = settled.value,
                                       ![i].after = st]
       /\ lastEvent' = Event("settle", searchTerm, <<>>, i)
       /\ UNCHANGED <<searchTerm, submits>>

\* axios.post answered 2xx with res.data = data
AxiosFulfil(i) ==
    \E data \in Bodies(requests[i].url) :
        Continue(i, "ok", getPrediction([ok |-> TRUE, data |-> data,
                                         message |-> ""]))

\* axios.post rejected: network failure or non-2xx status
AxiosReject(i) ==
    \E m \in Messages :
        Continue(i, "failed", getPrediction([ok |-> FALSE, data |-> Null,
                                             message |-> m]))

\* a stubbed getPrediction fulfils its promise with a documented response
StubFulfil(i) ==
    \E value \in GoodBodies(requests[i].url) :
        Continue(i, "none", [status |-> "fulfilled", value |-> value])

\* a stubbed getPrediction rejects its promise
StubReject(i) ==
    Continue(i, "none", [status |-> "rejected", value |-> Undefined])

Type == \E v \in Terms : SetSearchTerm(v)
HttpOk == \E i \in 1..MaxCalls : i \in Pending /\ AxiosFulfil(i)
HttpFail == \E i \in 1..MaxCalls : i \in Pending /\ AxiosReject(i)
Resolve == \E i \in 1..MaxCalls : i \in Pending /\ StubFulfil(i)
Reject == \E i \in 1..MaxCalls : i \in Pending /\ StubReject(i)

Next == Type \/ handleSubmit \/ HttpOk \/ HttpFail

Spec == Init /\ [][Next]_vars

NextUnit == Type \/ handleSubmit \/ Resolve \/ Reject

SpecUnit == Init /\ [][NextUnit]_vars

\* every issued external call eventually settles
LiveSpec == Spec /\ WF_vars(HttpOk \/ HttpFail)

TypeOK ==
    /\ searchTerm \in Terms
    /\ loading \in BOOLEAN
    /\ error \in BOOLEAN
    /\ mounted \in BOOLEAN
    /\ Len(requests) <= MaxCalls
    /\ submits \in 0..MaxCalls

(* ------------------------------- claims -------------------------------- *)

Calls == 1..Len(requests)

\* call i was the only one in flight from its submission to its settlement
Alone(i) == requests[i].alone

\* C1: loading and error are never both true.
C1_LoadingErrorExclusive == ~(loading /\ error)

\* C2: a call submitted while nothing was pending, alone in flight, that is
\* fulfilled with a {prediction, info, url} object leaves loading=false,
\* error=false and predictionDetail equal to exactly that object's fields.
C2_SuccessEndsIdle ==
    \A i \in Calls :
        ( /\ requests[i].status = "fulfilled"
          /\ requests[i].value.t = "object"
          /\ Alone(i)
          /\ ~requests[i].before.loading )
        => /\ requests[i].after.loading = FALSE
           /\ requests[i].after.error = FALSE
           /\ requests[i].after.predictionDetail =
                [prediction |-> requests[i].value.prediction,
                 info |-> requests[i].value.info,
                 url |-> requests[i].value.url]

\* C3: a call, alone in flight, whose promise rejects leaves error=true,
\* loading=false and predictionDetail as it was before the submission.
C3_RejectionEndsFailed ==
    \A i \in Calls :
        (requests[i].status = "rejected" /\ Alone(i))
        => /\ requests[i].after.error = TRUE
           /\ requests[i].after.loading = FALSE
           /\ requests[i].after.predictionDetail =
                requests[i].before.predictionDetail
           /\ (lastEvent.kind = "settle" /\ lastEvent.id = i
               => HomeState = requests[i].after)

\* a rejection that arrived while an earlier result was stored
C3_Witness ==
    \E i \in Calls :
        /\ requests[i].status = "rejected"
        /\ Alone(i)
        /\ requests[i].before.predictionDetail # InitialDetail
        /\ lastEvent.kind = "settle" /\ lastEvent.id = i
        /\ error /\ ~loading
        /\ predictionDetail = requests[i].before.predictionDetail

\* C4: a call, alone in flight, whose HTTP POST fails leaves error=true,
\* loading=false and predictionDetail unchanged.
C4_HttpFailureEndsFailed ==
    \A i \in Calls :
        (requests[i].http = "failed" /\ Alone(i))
        => /\ requests[i].after.error = TRUE
           /\ requests[i].after.loading = FALSE
           /\ requests[i].after.predictionDetail =
                requests[i].before.predictionDetail
\* the handlePrediction calls and the setSearchTerm calls of a handler run
CallbackCalls(effects) ==
    {k \in 1..Len(effects) : effects[k].op = "handlePrediction"}
FieldWrites(effects) ==
    {k \in 1..Len(effects) : effects[k].op = "setSearchTerm"}

\* C5: right after the submission of a non-empty searchTerm, loading is
\* true and searchTerm is the empty string.
C5_SubmitSetsPendingAndClears ==
    (lastEvent.kind = "submit" /\ lastEvent.term # "")
    => (loading /\ searchTerm = "")

\* a non-empty submission made while nothing was loading
C5_Witness ==
    /\ lastEvent.kind = "submit"
    /\ lastEvent.term # ""
    /\ ~lastEvent.pre.loading
    /\ loading
    /\ searchTerm = ""

\* C6: a submission with an empty searchTerm leaves loading, error and
\* predictionDetail as they were and issues no getPrediction call.
C6_EmptySubmitIsNoOp ==
    (lastEvent.kind = "submit" /\ lastEvent.term = "")
    => /\ HomeState = lastEvent.pre
       /\ Len(requests) = lastEvent.calls
       /\ Pending = lastEvent.inflight

\* an empty submission made while a call was in flight
C6_Witness ==
    /\ lastEvent.kind = "submit"
    /\ lastEvent.term = ""
    /\ lastEvent.inflight # {}
    /\ loading

\* C7: the number of getPrediction calls equals the number of non-empty
\* submissions; a non-empty submission adds exactly one call, whose url is
\* the string that was in the field; a settlement adds none.
C7_OneCallPerSubmission ==
    /\ Len(requests) = submits
    /\ (lastEvent.kind = "submit" /\ lastEvent.term # "")
       => /\ Len(requests) = lastEvent.calls + 1
          /\ requests[Len(requests)].url = lastEvent.term
    /\ lastEvent.kind = "settle" => Len(requests) = lastEvent.calls

\* a failed call after which nothing was re-issued
C7_Witness ==
    /\ lastEvent.kind = "settle"
    /\ requests[lastEvent.id].http = "failed"
    /\ Len(requests) = submits
    /\ Pending = {}

\* C8: a submission calls the submit callback exactly once, with the
\* searchTerm as it was, empty or not, writes the field only after that
\* call, and leaves searchTerm empty.
C8_SubmitCallsBackThenClears ==
    lastEvent.kind = "submit"
    => LET e == lastEvent.effects
       IN /\ Cardinality(CallbackCalls(e)) = 1
          /\ \A k \in CallbackCalls(e) : e[k].arg = lastEvent.term
          /\ FieldWrites(e) # {}
          /\ \A w \in FieldWrites(e) :
                /\ e[w].arg = ""
                /\ \A k \in CallbackCalls(e) : k < w
          /\ searchTerm = ""

\* an empty string handed to the callback
C8_Witness ==
    /\ lastEvent.kind = "submit"
    /\ lastEvent.term = ""
    /\ \E k \in CallbackCalls(lastEvent.effects) :
          lastEvent.effects[k].arg = ""
    /\ searchTerm = ""

\* C9: if every issued call eventually settles, each non-empty submission
\* is eventually followed by a state with loading=false.
C9_SubmissionEventuallyNotLoading ==
    (lastEvent.kind = "submit" /\ lastEvent.term # "") ~> ~loading

\* the settlement of the last call in flight ended the pending state
C9_Witness ==
    /\ lastEvent.kind = "settle"
    /\ lastEvent.pre.loading
    /\ ~loading
    /\ Pending = {}

\* every settled call was fulfilled, and calls with the same url with the
\* same value
FixedBackend ==
    /\ \A k \in Settled : requests[k].status = "fulfilled"
    /\ \A k, l \in Settled :
          requests[k].url = requests[l].url
          => requests[k].value = requests[l].value

\* call j was submitted after call i settled, with the same url
Resubmission(i, j) ==
    /\ i \in Settled /\ j \in Settled
    /\ i \in requests[j].doneAtSubmit
    /\ requests[i].url = requests[j].url

\* C10: with a backend that answers each url with one fixed successful
\* response, the completion of a resubmission of a url leaves the same
\* loading, error and predictionDetail as the completion of the earlier
\* submission of that url.
C10_SequentialIdempotence ==
    FixedBackend
    => \A i, j \in Calls :
          Resubmission(i, j) => requests[i].after = requests[j].after

\* a url submitted, completed, submitted again and completed again
C10_Witness ==
    /\ FixedBackend
    /\ \E i, j \in Calls :
          /\ Resubmission(i, j)
          /\ requests[i].value.info.items # <<>>
          /\ lastEvent.kind = "settle" /\ lastEvent.id = j
          /\ HomeState = requests[i].after

\* calls i and j were in flight at the same time
Overlapping(i, j) ==
    /\ i # j
    /\ i \notin requests[j].doneAtSubmit
    /\ j \notin requests[i].doneAtSubmit

\* call i was answered 2xx with a {prediction, info, url} object
Succeeded(i) ==
    /\ requests[i].status = "fulfilled"
    /\ requests[i].http = "ok"
    /\ requests[i].value.t = "object"

\* C11: when two overlapping calls have both succeeded, the stored
\* predictionDetail is the response of the one that completed last,
\* whichever was submitted first.
C11_LastWriteWins ==
    \A i, j \in Calls :
        ( /\ Overlapping(i, j)
          /\ Succeeded(i) /\ Succeeded(j)
          /\ lastEvent.kind = "settle" /\ lastEvent.id = j )
        => predictionDetail =
             [prediction |-> requests[j].value.prediction,
              info |-> requests[j].value.info,
              url |-> requests[j].value.url]

\* the earlier submission completed last and its response replaced the
\* response of the later one
C11_Witness ==
    \E i, j \in Calls :
        /\ i < j
        /\ Overlapping(i, j)
        /\ Succeeded(i) /\ Succeeded(j)
        /\ requests[i].value # requests[j].value
        /\ lastEvent.kind = "settle" /\ lastEvent.id = i
        /\ predictionDetail =
             [prediction |-> requests[i].value.prediction,
              info |-> requests[i].value.info,
              url |-> requests[i].value.url]

\* C12 as stated: loading is true exactly when some call is in flight.
C12_LoadingIffPending == loading <=> (Pending # {})

\* C12 as amended: loading is true only while some call is in flight, and
\* it is true while a call is in flight that never shared its flight with
\* another call.
C12_LoadingImpliesPending ==
    /\ loading => (Pending # {})
    /\ \A i \in Pending : Alone(i) => loading

\* a second call, submitted after the first settled, in flight on its own
C12_Witness ==
    /\ Len(requests) = 2
    /\ Pending = {2}
    /\ Alone(2)
    /\ loading

\* the result panel shows exactly the stored prediction, the stored
\* inferences in order and the stored url
ShowsStoredResult ==
    LET v == View(HomeState)
    IN /\ v.panel = "result"
       /\ predictionDetail.info.t = "array"
       /\ v.prediction = Text(predictionDetail.prediction)
       /\ Len(v.items) = Len(predictionDetail.info.items)
       /\ \A k \in 1..Len(v.items) :
             v.items[k].text = <<"bullet", predictionDetail.info.items[k]>>
       /\ v.url = Text(predictionDetail.url)

\* C13: the spinner is shown while loading, else the error banner while
\* error, else the result panel with exactly the stored result; after one
\* submission from the initial state answered {"safe", [], url} the panel
\* shows "safe", no inference and that url.
C13_PanelShowsStoredResult ==
    /\ loading => View(HomeState).panel = "spinner"
    /\ (~loading /\ error) => View(HomeState).panel = "error"
    /\ (~loading /\ ~error) => ShowsStoredResult
    /\ ( /\ Len(requests) = 1
         /\ requests[1].status = "fulfilled"
         /\ requests[1].value =
              Obj(Str("safe"), Arr(<<>>), Str(requests[1].url)) )
       => View(HomeState) = [panel |-> "result", prediction |-> "safe",
                             items |-> <<>>, url |-> requests[1].url]

\* C14: once error is true no step sets it back to false, and from then on
\* the result panel is not shown.
C14_ErrorMonotonic ==
    [][error => (error' /\ View(HomeState').panel # "result")]_vars

\* a call that succeeded after an earlier one had failed, error still set
C14_Witness ==
    /\ lastEvent.kind = "settle"
    /\ lastEvent.pre.error
    /\ requests[lastEvent.id].status = "fulfilled"
    /\ requests[lastEvent.id].value.t = "object"
    /\ predictionDetail # lastEvent.pre.predictionDetail
    /\ error
    /\ View(HomeState).panel = "error"

\* C15: predictionDetail.info is always an array, and the continuation of
\* a call whose HTTP request failed leaves predictionDetail as it was.
C15_DetailWellFormed ==
    /\ predictionDetail.info.t = "array"
    /\ (lastEvent.kind = "settle" /\ requests[lastEvent.id].http = "failed")
       => predictionDetail = lastEvent.pre.predictionDetail

\* C16: a keystroke leaves loading, error, predictionDetail and the calls
\* in flight as they were, and the continuation of a call leaves
\* searchTerm as it was.
C16_InputAndRequestIndependent ==
    /\ lastEvent.kind = "type"
       => /\ HomeState = lastEvent.pre
          /\ Len(requests) = lastEvent.calls
          /\ Pending = lastEvent.inflight
    /\ lastEvent.kind = "settle" => searchTerm = lastEvent.term

\* text typed while a call was in flight, still there after the response
C16_Witness ==
    /\ lastEvent.kind = "settle"
    /\ lastEvent.term # ""
    /\ searchTerm = lastEvent.term
    /\ requests[lastEvent.id].status = "fulfilled"

====
